---- MODULE Spec2Model ----
(***************************************************************************)
(* Model of timetable_ga.py: the genetic timetable search (run_ga) with    *)
(* its fitness function, tournament, crossover, mutate and repair.         *)
(*                                                                         *)
(* Gene dicts are objects on a heap; an individual is a list of references *)
(* to them, so that in-place writes (mutate, repair) and copies (deepcopy) *)
(* are distinguished.  Every call of the random module is a                *)
(* nondeterministic choice over the values it can return.                  *)
(*                                                                         *)
(* Penalties are kept doubled (penalty2 = 2 * penalty) because the spread  *)
(* term of fitness counts in halves; a fitness value 1.0/(1+penalty) is    *)
(* the rational [n |-> 2, d |-> 2 + penalty2].  Within the bounds of the   *)
(* model two different penalties differ by far more than one float ulp, so *)
(* comparing the rationals is comparing the floats.                        *)
(***************************************************************************)
EXTENDS Integers, Sequences, FiniteSets, TLC

VARIABLES
    sessions,     \* build_session_list's result: sequence of session records
    timeslots,    \* the timeslot ids of the timeslot table
    rooms,        \* rooms_map: room id -> capacity (rooms_ids is its domain)
    teachers,     \* teacher id -> [qualified, available, preferred]
    pop_size,     \* run_ga parameter
    generations,  \* run_ga parameter
    pc,           \* position in run_ga / main
    gen,          \* loop counter of run_ga
    heap,         \* gene objects: reference -> gene dict
    pop,          \* list of individuals, each a list of gene references
    fitnesses,    \* fitness vector of the generation evaluated last
    newpop,       \* next generation under construction
    best_ind,     \* best-ever individual (list of references) or None
    best_fit,     \* best-ever fitness
    ever_max,     \* history: greatest fitness evaluated so far, or NoFit
    ever_first,   \* history: bindings of the first individual attaining ever_max
    repair_fallback \* history: the last repair call took its last-resort branch

vars == <<sessions, timeslots, rooms, teachers, pop_size, generations, pc, gen,
          heap, pop, fitnesses, newpop, best_ind, best_fit, ever_max, ever_first,
          repair_fallback>>

config == <<sessions, timeslots, rooms, teachers, pop_size, generations>>

----------------------------------------------------------------------------
(* Program constants *)

TOURNAMENT_K == 3
ELITE == 4
HARD_PENALTY == 1000000
SOFT_PENALTY == 5
SpreadFree == 3
TrialTeachers == 4
TrialSlots == 5
TrialRooms == 3

(* Bounds of the model *)

MaxPopSize == 5
MaxGenerations == 2

\* Python's None for best_ind: a value that is no list of gene references
None == <<<<"None", 0, 0, 0>>>>

\* no fitness evaluated yet
NoFit == [n |-> 0, d |-> 0]

Min(a, b) == IF a < b THEN a ELSE b

KSubsets(S, k) == {X \in SUBSET S : Cardinality(X) = k}

----------------------------------------------------------------------------
(* Fitness values: rationals n/d with d # 0 *)

Sgn(x) == IF x > 0 THEN 1 ELSE IF x < 0 THEN -1 ELSE 0

\* a > b for fitness values
FitGT(a, b) ==
    IF a.d > 0 /\ b.d > 0 THEN a.n * b.d > b.n * a.d
    ELSE a.n * b.d * Sgn(a.d) * Sgn(b.d) > b.n * a.d * Sgn(a.d) * Sgn(b.d)

FitEQ(a, b) == a.n * b.d = b.n * a.d

FitGE(a, b) == ~FitGT(b, a)

\* best_fit = -1
InitialBestFit == [n |-> -1, d |-> 1]

\* best_fit > 0.999999, i.e. n/d > 999999/1000000, for n = 2 (a computed
\* fitness) and for the initial -1
NearPerfect(f) == f.n > 0 /\ f.d > 0 /\ f.d <= (f.n * 1000000 - 1) \div 999999

----------------------------------------------------------------------------
(* Gene values and the heap *)

\* the bindings of an individual: the gene dicts its references point to
Val(h, ind) == [j \in 1..Len(ind) |-> h[ind[j]]]

\* a copy that shares the gene dicts with its source
deepcopy_shared(h, ind, owner, slot) == [h |-> h, ind |-> ind]

\* copy.deepcopy of a list of gene dicts: fresh objects named by the place
\* (owner, slot) that will hold them
deepcopy(h, ind, owner, slot) ==
    LET fresh == {<<owner, slot, j, 0>> : j \in 1..Len(ind)}
    IN  [h   |-> [r \in DOMAIN h \cup fresh |->
                     IF r \in fresh THEN h[ind[r[3]]] ELSE h[r]],
         ind |-> [j \in 1..Len(ind) |-> <<owner, slot, j, 0>>]]

\* the genes a list of individuals refers to
RefsOf(inds) == UNION {{inds[i][j] : j \in 1..Len(inds[i])} : i \in 1..Len(inds)}

\* drop the objects no list refers to any more
Collect(h, live) == [r \in (DOMAIN h) \cap live |-> h[r]]

----------------------------------------------------------------------------
(* random_gene, init_individual *)

QualifiedFor(course) == {t \in DOMAIN teachers : course \in teachers[t].qualified}

\* qualified teachers, or every teacher when none is qualified
TeacherChoices(course) ==
    IF QualifiedFor(course) # {} THEN QualifiedFor(course) ELSE DOMAIN teachers

random_gene(s) ==
    {[session_id |-> s.session_id, course |-> s.course, group |-> s.group,
      size |-> s.size, timeslot |-> ts, room |-> r, teacher |-> t] :
        t \in TeacherChoices(s.course), ts \in timeslots, r \in DOMAIN rooms}

RECURSIVE init_from(_)
init_from(j) ==
    IF j > Len(sessions) THEN {<<>>}
    ELSE {<<g>> \o rest : g \in random_gene(sessions[j]), rest \in init_from(j + 1)}

init_individual == init_from(1)

----------------------------------------------------------------------------
(* fitness *)

RoomCap(r) == IF r \in DOMAIN rooms THEN rooms[r] ELSE 0

\* the number of genes a per-gene test holds for
Count(flags) == Cardinality({j \in 1..Len(flags) : flags[j]})

\* sum over the buckets of one kind of (len - 1)
ExtraBookings(keys) == Len(keys) - Cardinality({keys[j] : j \in 1..Len(keys)})

KeyTeacher(g) == <<g.timeslot, g.teacher>>
KeyRoom(g) == <<g.timeslot, g.room>>
KeyGroup(g) == <<g.timeslot, g.group>>

\* the capacity test with the comparison turned round
OverCapacity_flipped(g) == g.size < RoomCap(g.room)

OverCapacity(g) == g.size > RoomCap(g.room)
Unqualified(g) == g.course \notin teachers[g.teacher].qualified
Unavailable(g) == g.timeslot \notin teachers[g.teacher].available
Preferred(g) == g.timeslot \in teachers[g.teacher].preferred

RECURSIVE SumOver(_, _)
SumOver(S, F) ==
    IF S = {} THEN 0
    ELSE LET x == CHOOSE y \in S : TRUE IN F[x] + SumOver(S \ {x}, F)

\* twice the spread term: per teacher max(0, unique - 3) * 0.5
Spread2(ind) ==
    LET used == {ind[j].teacher : j \in 1..Len(ind)}
        uniq == [t \in used |->
                   Cardinality({ind[j].timeslot : j \in {k \in 1..Len(ind) : ind[k].teacher = t}})]
    IN  SumOver(used, [t \in used |-> IF uniq[t] > SpreadFree THEN uniq[t] - SpreadFree ELSE 0])

CapacityCount(ind) == Count([j \in 1..Len(ind) |-> OverCapacity(ind[j])])

\* the hard part without the double-booking loop
HardCount_no_buckets(ind) ==
    CapacityCount(ind) + Count([j \in 1..Len(ind) |-> Unqualified(ind[j])])

\* the hard part of the penalty, in units of HARD_PENALTY
HardCount(ind) ==
    CapacityCount(ind)
    + ExtraBookings([j \in 1..Len(ind) |-> KeyTeacher(ind[j])])
    + ExtraBookings([j \in 1..Len(ind) |-> KeyRoom(ind[j])])
    + ExtraBookings([j \in 1..Len(ind) |-> KeyGroup(ind[j])])
    + Count([j \in 1..Len(ind) |-> Unqualified(ind[j])])

\* 2 * penalty
penalty2(ind) ==
    2 * (HARD_PENALTY * HardCount(ind)
         + SOFT_PENALTY * Count([j \in 1..Len(ind) |-> Unavailable(ind[j])])
         - Count([j \in 1..Len(ind) |-> Preferred(ind[j])]))
    + Spread2(ind)

\* 1.0 / (1 + penalty) raises ZeroDivisionError
DivByZero(ind) == 2 + penalty2(ind) = 0

fitness(ind) == [n |-> 2, d |-> 2 + penalty2(ind)]

----------------------------------------------------------------------------
(* tournament, crossover, mutate *)

\* lines 154-155: the indices tournament can pick, each the best of some
\* sample of k distinct indices (max keeps the first of several best, and the
\* sample's order is random); line 156 returns copy.deepcopy(pop[best])
tournament(k) ==
    LET samples == KSubsets(1..Len(pop), k)
    IN  {best \in 1..Len(pop) :
            \E inds \in samples :
                best \in inds /\ \A j \in inds : FitGE(fitnesses[best], fitnesses[j])}

\* a crossover that puts the tail of one parent before the head of the other
crossover_swapped(h, a, b, owner, slot) ==
    LET n == Len(a)
        both(x, y) ==
            LET d1 == deepcopy(h, x, owner, slot)
                d2 == deepcopy(d1.h, y, owner, slot + 1)
            IN  [h |-> d2.h, c1 |-> d1.ind, c2 |-> d2.ind]
    IN  IF n < 2 THEN {both(a, b)}
        ELSE {both(SubSeq(b, pt + 1, n) \o SubSeq(a, 1, pt),
                   SubSeq(a, pt + 1, n) \o SubSeq(b, 1, pt)) : pt \in 1..(n - 1)}

\* child1 goes to slot, child2 to slot + 1 of owner
crossover(h, a, b, owner, slot) ==
    LET n == Len(a)
        both(x, y) ==
            LET d1 == deepcopy(h, x, owner, slot)
                d2 == deepcopy(d1.h, y, owner, slot + 1)
            IN  [h |-> d2.h, c1 |-> d1.ind, c2 |-> d2.ind]
    IN  IF n < 2 THEN {both(a, b)}
        ELSE {both(SubSeq(a, 1, pt) \o SubSeq(b, pt + 1, n),
                   SubSeq(b, 1, pt) \o SubSeq(a, pt + 1, n)) : pt \in 1..(n - 1)}

\* what one pass of mutate's loop body can do to the gene object r
MutateGene(h, r) ==
    LET gene  == h[r]
        avail == teachers[gene.teacher].available
        slots == IF avail # {} THEN avail ELSE timeslots
    IN  {h}
        \cup {[h EXCEPT ![r].timeslot = ts] : ts \in slots}
        \cup {[h EXCEPT ![r].room = rm] : rm \in DOMAIN rooms}
        \cup {[h EXCEPT ![r].teacher = t] : t \in TeacherChoices(gene.course)}

RECURSIVE MutateFrom(_, _, _)
MutateFrom(h, ind, i) ==
    IF i > Len(ind) THEN {h}
    ELSE UNION {MutateFrom(h2, ind, i + 1) : h2 \in MutateGene(h, ind[i])}

\* the heaps mutate(ind) can leave; ind itself (the list) is returned unchanged
mutate(h, ind) == MutateFrom(h, ind, 1)

----------------------------------------------------------------------------
(* repair *)

conflicts_count(gene, index, current) ==
    LET others == (1..Len(current)) \ {index}
        same(j) == gene.timeslot = current[j].timeslot
    IN  Cardinality({j \in others : same(j) /\ gene.teacher = current[j].teacher})
        + Cardinality({j \in others : same(j) /\ gene.room = current[j].room})
        + Cardinality({j \in others : same(j) /\ gene.group = current[j].group})
        + (IF gene.size > RoomCap(gene.room) THEN 1 ELSE 0)
        + (IF gene.course \notin teachers[gene.teacher].qualified THEN 1 ELSE 0)

\* avail of the trial loop: the teacher's available slots, or all timeslots
TrialSlotsOf(t) ==
    IF teachers[t].available # {} THEN teachers[t].available ELSE timeslots

\* every triple the trial loops can produce
Trials(course) ==
    UNION {{<<t, ts, r>> : ts \in TrialSlotsOf(t), r \in DOMAIN rooms} :
              t \in TeacherChoices(course)}

Rebind(g, t, ts, r) == [g EXCEPT !.teacher = t, !.timeslot = ts, !.room = r]

\* the test of line 230 without its conflicts_count conjunct
TrialOK_capacity_only(g, t, ts, r, i, current) == g.size <= RoomCap(r)

\* the test of line 230 on the trial (t, ts, r) for gene i
TrialOK(g, t, ts, r, i, current) ==
    /\ conflicts_count(Rebind(g, t, ts, r), i, current) = 0
    /\ g.size <= RoomCap(r)

\* some choice of the three random.sample calls holds no passing trial
NoTrialMayPass(g, i, current) ==
    LET cand == TeacherChoices(g.course)
    IN  \E T \in KSubsets(cand, Min(Cardinality(cand), TrialTeachers)) :
          \A t \in T :
            \E TS \in KSubsets(TrialSlotsOf(t), Min(Cardinality(TrialSlotsOf(t)), TrialSlots)) :
              \A ts \in TS :
                \E R \in KSubsets(DOMAIN rooms, Min(Cardinality(DOMAIN rooms), TrialRooms)) :
                  \A r \in R : ~TrialOK(g, t, ts, r, i, current)

\* the outcomes of repair's loop body for position i: [h, ind, fallback]
RepairGene(h, cur, i, owner, slot) ==
    LET g       == h[cur[i]]
        current == Val(h, cur)
        fresh   == <<owner, slot, i, 1>>
        adopted ==
            {[h   |-> [r \in DOMAIN h \cup {fresh} |->
                          IF r = fresh THEN Rebind(g, t, ts, rm) ELSE h[r]],
              ind |-> [cur EXCEPT ![i] = fresh],
              fallback |-> FALSE] :
                <<t, ts, rm>> \in
                    {tr \in Trials(g.course) : TrialOK(g, tr[1], tr[2], tr[3], i, current)}}
        random ==
            IF NoTrialMayPass(g, i, current)
            THEN {[h   |-> [h EXCEPT ![cur[i]] = Rebind(g, t, ts, rm)],
                   ind |-> cur,
                   fallback |-> TRUE] :
                     t \in DOMAIN teachers, ts \in timeslots, rm \in DOMAIN rooms}
            ELSE {}
    IN  IF conflicts_count(g, i, current) > 0
        THEN adopted \cup random
        ELSE {[h |-> h, ind |-> cur, fallback |-> FALSE]}

RECURSIVE RepairFrom(_, _, _, _, _, _)
RepairFrom(h, cur, i, fb, owner, slot) ==
    IF i > Len(cur) THEN {[h |-> h, ind |-> cur, fallback |-> fb]}
    ELSE UNION {RepairFrom(s.h, s.ind, i + 1, fb \/ s.fallback, owner, slot) :
                    s \in RepairGene(h, cur, i, owner, slot)}

\* the outcomes of repair(ind): the heap, the returned list, and whether the
\* last-resort branch was taken; owner and slot name the objects g_try creates
repair(h, ind, owner, slot) == RepairFrom(h, ind, 1, FALSE, owner, slot)

----------------------------------------------------------------------------
(* Inputs: course, teacher, room and timeslot tables *)

Course(cid, grp, lectures, size) ==
    [course_id |-> cid, group_id |-> grp, lectures_per_week |-> lectures,
     expected_size |-> size]

Teacher(q, a, p) == [qualified |-> q, available |-> a, preferred |-> p]

RECURSIVE build_from(_, _)
build_from(courses, k) ==
    IF k > Len(courses) THEN <<>>
    ELSE LET c == courses[k]
         IN  [i \in 1..c.lectures_per_week |->
                 [session_id |-> <<c.course_id, i>>, course |-> c.course_id,
                  group |-> c.group_id, size |-> c.expected_size]]
             \o build_from(courses, k + 1)

build_session_list(courses) == build_from(courses, 1)

Input(courses, ts, rm, tch) ==
    [sessions |-> build_session_list(courses), timeslots |-> ts, rooms |-> rm,
     teachers |-> tch]

NoRooms == [r \in {} |-> 0]
NoTeachers == [t \in {} |-> Teacher({}, {}, {})]
OneRoom(cap) == [r \in {"R1"} |-> cap]
TwoCourses(g2) == <<Course("c1", "g1", 1, 30), Course("c2", g2, 1, 30)>>

\* one lecture, one teacher free in both slots, a room that fits
InA == Input(<<Course("c1", "g1", 1, 30)>>, {"TS1", "TS2"}, OneRoom(40),
             [t \in {"T1"} |-> Teacher({"c1"}, {"TS1", "TS2"}, {})])

\* as InA, and the teacher prefers TS1
InPref == Input(<<Course("c1", "g1", 1, 30)>>, {"TS1", "TS2"}, OneRoom(40),
                [t \in {"T1"} |-> Teacher({"c1"}, {"TS1", "TS2"}, {"TS1"})])

\* two courses of one group, one teacher, one timeslot
InB == Input(TwoCourses("g1"), {"TS1"}, OneRoom(40),
             [t \in {"T1"} |-> Teacher({"c1", "c2"}, {"TS1"}, {})])

\* as InB, with a second teacher who is qualified for nothing and prefers TS1
InB2 == Input(TwoCourses("g1"), {"TS1"}, OneRoom(40),
              [t \in {"T1", "T2"} |->
                  IF t = "T1" THEN Teacher({"c1", "c2"}, {"TS1"}, {})
                  ELSE Teacher({}, {"TS1"}, {"TS1"})])

\* the only room is too small; the teacher is free in TS1 only
InC1 == Input(<<Course("c1", "g1", 1, 30)>>, {"TS1", "TS2"}, OneRoom(20),
              [t \in {"T1"} |-> Teacher({"c1"}, {"TS1"}, {})])

\* the only room is too small for a course of two lectures
InC2 == Input(<<Course("c1", "g1", 2, 30)>>, {"TS1"}, OneRoom(20),
              [t \in {"T1"} |-> Teacher({"c1"}, {"TS1"}, {})])

\* one of two rooms is too small
InFix == Input(<<Course("c1", "g1", 1, 30)>>, {"TS1"},
               [r \in {"R1", "R2"} |-> IF r = "R1" THEN 20 ELSE 40],
               [t \in {"T1"} |-> Teacher({"c1"}, {"TS1"}, {})])

\* two groups, two teachers, one room; each teacher prefers a slot of its own
InTwo == Input(TwoCourses("g2"), {"TS1", "TS2"}, OneRoom(40),
               [t \in {"T1", "T2"} |->
                   IF t = "T1" THEN Teacher({"c1"}, {"TS1", "TS2"}, {"TS1"})
                   ELSE Teacher({"c2"}, {"TS1", "TS2"}, {"TS2"})])

\* the degenerate tables
InNoSessions == Input(<<>>, {"TS1"}, OneRoom(40),
                      [t \in {"T1"} |-> Teacher({"c1"}, {"TS1"}, {})])
InNoTimeslots == Input(<<Course("c1", "g1", 1, 30)>>, {}, OneRoom(40),
                       [t \in {"T1"} |-> Teacher({"c1"}, {"TS1"}, {})])
InNoRooms == Input(<<Course("c1", "g1", 1, 30)>>, {"TS1"}, NoRooms,
                   [t \in {"T1"} |-> Teacher({"c1"}, {"TS1"}, {})])
InNoTeachers == Input(<<Course("c1", "g1", 1, 30)>>, {"TS1"}, OneRoom(40), NoTeachers)

Inputs == {InA, InPref, InB, InB2, InC1, InC2, InFix, InTwo,
           InNoSessions, InNoTimeslots, InNoRooms, InNoTeachers}

----------------------------------------------------------------------------
(* run_ga *)

Buffer(g) == IF g % 2 = 0 THEN "even" ELSE "odd"

BestRefs == IF best_ind = None THEN {} ELSE {best_ind[j] : j \in 1..Len(best_ind)}

\* random.choice of an empty list while the first population is built
InitFails ==
    /\ pop_size > 0
    /\ Len(sessions) > 0
    /\ (DOMAIN teachers = {} \/ timeslots = {} \/ DOMAIN rooms = {})

\* lines 244-250: the first population, best_ind = None, best_fit = -1
Initialize ==
    /\ pc = "start"
    /\ IF InitFails
       THEN /\ pc' = "error"
            /\ UNCHANGED <<heap, pop, best_ind, best_fit, gen>>
       ELSE /\ \E made \in [1..pop_size -> init_individual] :
                 /\ heap' = [r \in {<<Buffer(0), i, j, 0>> :
                                       i \in 1..pop_size, j \in 1..Len(sessions)} |->
                               made[r[2]][r[3]]]
                 /\ pop' = [i \in 1..pop_size |->
                               [j \in 1..Len(sessions) |-> <<Buffer(0), i, j, 0>>]]
            /\ best_ind' = None
            /\ best_fit' = InitialBestFit
            /\ gen' = 0
            /\ pc' = IF generations > 0 THEN "evaluate" ELSE "done"
    /\ UNCHANGED <<config, fitnesses, newpop, ever_max, ever_first, repair_fallback>>

\* lines 253-256: the scan for a strictly greater fitness
RECURSIVE TrackBest(_, _, _, _)
TrackBest(fs, i, bf, bi) ==
    IF i > Len(fs) THEN [fit |-> bf, idx |-> bi]
    ELSE IF FitGT(fs[i], bf) THEN TrackBest(fs, i + 1, fs[i], i)
         ELSE TrackBest(fs, i + 1, bf, bi)

\* the index of the first greatest fitness of a non-empty vector
FirstMax(fs) == CHOOSE i \in 1..Len(fs) :
                    /\ \A j \in 1..Len(fs) : FitGE(fs[i], fs[j])
                    /\ \A j \in 1..(i - 1) : ~FitEQ(fs[j], fs[i])

\* the greatest fitness of a non-empty vector
MaxFit(fs) == fs[FirstMax(fs)]

\* lines 251-263: the fitness vector, the best-ever update, the early exit
Evaluate ==
    /\ pc = "evaluate"
    /\ LET vals == [i \in 1..Len(pop) |-> Val(heap, pop[i])]
       IN  IF \E i \in 1..Len(pop) : DivByZero(vals[i])
           THEN /\ pc' = "error"
                /\ UNCHANGED <<heap, fitnesses, best_ind, best_fit, ever_max, ever_first>>
           ELSE LET \* line 251: the list of fitness values, each computed once
                    fs == SubSeq([i \in 1..Len(pop) |-> fitness(vals[i])], 1, Len(pop))
                    tb == TrackBest(fs, 1, best_fit, 0)
                    cp == deepcopy(heap, pop[tb.idx], "best", 0)
                IN  /\ fitnesses' = fs
                    /\ best_fit' = tb.fit
                    /\ IF tb.idx = 0
                       THEN UNCHANGED <<best_ind, heap>>
                       ELSE /\ best_ind' = cp.ind
                            /\ heap' = cp.h
                    /\ IF fs # <<>> /\ (ever_max = NoFit \/ FitGT(MaxFit(fs), ever_max))
                       THEN LET m == FirstMax(fs)
                            IN  /\ ever_max' = fs[m]
                                /\ ever_first' = vals[m]
                       ELSE UNCHANGED <<ever_max, ever_first>>
                    /\ pc' = IF NearPerfect(tb.fit) THEN "done" ELSE "breed"
    /\ UNCHANGED <<config, gen, pop, newpop, repair_fallback>>

\* the sort without reverse=True: least fitness first
sorted_idx_ascending(fs) ==
    LET before == [i \in 1..Len(fs) |->
                      Cardinality({j \in 1..Len(fs) :
                          FitGT(fs[i], fs[j]) \/ (FitEQ(fs[j], fs[i]) /\ j < i)})]
    IN  [k \in 1..Len(fs) |-> CHOOSE i \in 1..Len(fs) : before[i] = k - 1]

\* line 267: indices by fitness, greatest first, equal ones in index order
sorted_idx(fs) ==
    LET before == [i \in 1..Len(fs) |->
                      Cardinality({j \in 1..Len(fs) :
                          FitGT(fs[j], fs[i]) \/ (FitEQ(fs[j], fs[i]) /\ j < i)})]
    IN  [k \in 1..Len(fs) |-> CHOOSE i \in 1..Len(fs) : before[i] = k - 1]

RECURSIVE CopyElites(_, _, _, _)
CopyElites(h, order, k, acc) ==
    IF k > Min(ELITE, Len(order)) THEN [h |-> h, newpop |-> acc]
    ELSE LET cp == deepcopy(h, pop[order[k]], Buffer(gen + 1), k)
         IN  CopyElites(cp.h, order, k + 1, Append(acc, cp.ind))

\* lines 265-269: the next generation starts with copies of the ELITE best
Elitism ==
    /\ pc = "breed"
    /\ LET e == CopyElites(heap, sorted_idx(fitnesses), 1, <<>>)
       IN  /\ newpop' = e.newpop
           /\ heap' = e.h
    /\ pc' = "fill"
    /\ UNCHANGED <<config, gen, pop, fitnesses, best_ind, best_fit, ever_max,
                   ever_first, repair_fallback>>

\* the part of heap h that the lists c1 and c2 refer to
Local(h, c1, c2) ==
    [r \in {c1[j] : j \in 1..Len(c1)} \cup {c2[j] : j \in 1..Len(c2)} |-> h[r]]

\* heap h after the writes and allocations recorded in l
Override(h, l) == [r \in DOMAIN h \cup DOMAIN l |-> IF r \in DOMAIN l THEN l[r] ELSE h[r]]

\* lines 271-273: two tournaments and the crossover; the children are to be
\* held by slots k and k + 1 of the next generation.  Only the objects of the
\* two children are kept: nothing else is read or written by lines 274-277.
Parents(h, k) ==
    LET best == tournament(TOURNAMENT_K)
    IN  UNION {UNION {{[h |-> Local(c.h, c.c1, c.c2), c1 |-> c.c1, c2 |-> c.c2] :
                          c \in crossover(p2.h, p1.ind, p2.ind, Buffer(gen + 1), k)} :
                          p2 \in {deepcopy(p1.h, pop[b2], "p2", 0) : b2 \in best}} :
                  p1 \in {deepcopy(h, pop[b1], "p1", 0) : b1 \in best}}

\* lines 274-277: mutate c1, mutate c2, repair c1, repair c2
Offspring(h, k) ==
    LET m1 == UNION {{[h |-> h2, c1 |-> s.c1, c2 |-> s.c2] : h2 \in mutate(s.h, s.c1)} :
                        s \in Parents(h, k)}
        m2 == UNION {{[h |-> h2, c1 |-> s.c1, c2 |-> s.c2] : h2 \in mutate(s.h, s.c2)} :
                        s \in m1}
        r1 == UNION {{[h |-> r.h, c1 |-> r.ind, c2 |-> s.c2] :
                          r \in repair(s.h, s.c1, Buffer(gen + 1), k)} : s \in m2}
    IN  UNION {{[h |-> Local(r.h, s.c1, r.ind), c1 |-> s.c1, c2 |-> r.ind] :
                   r \in repair(s.h, s.c2, Buffer(gen + 1), k + 1)} : s \in r1}

\* lines 270-280: one pass of the while loop
BreedPair ==
    /\ pc = "fill"
    /\ Len(newpop) < pop_size
    /\ IF TOURNAMENT_K > Len(pop)
       THEN /\ pc' = "error"
            /\ UNCHANGED <<heap, newpop>>
       ELSE \E s \in Offspring(heap, Len(newpop) + 1) :
              /\ newpop' = IF Len(newpop) + 1 < pop_size
                           THEN newpop \o <<s.c1, s.c2>>
                           ELSE Append(newpop, s.c1)
              /\ heap' = Collect(Override(heap, s.h),
                               RefsOf(pop) \cup RefsOf(newpop') \cup BestRefs)
              /\ pc' = "fill"
    /\ UNCHANGED <<config, gen, pop, fitnesses, best_ind, best_fit, ever_max,
                   ever_first, repair_fallback>>

\* line 281 and the loop header: pop = newpop, next gen or leave the loop
NextGeneration ==
    /\ pc = "fill"
    /\ Len(newpop) >= pop_size
    /\ pop' = newpop
    /\ heap' = Collect(heap, RefsOf(newpop) \cup BestRefs)
    /\ gen' = gen + 1
    /\ pc' = IF gen + 1 < generations THEN "evaluate" ELSE "done"
    /\ UNCHANGED <<config, fitnesses, newpop, best_ind, best_fit, ever_max,
                   ever_first, repair_fallback>>

\* lines 306-311 of main: run_ga has returned (best_ind, best_fit)
Main ==
    /\ pc = "done"
    /\ pc' = IF best_ind = None THEN "failed" ELSE "written"
    /\ UNCHANGED <<config, gen, heap, pop, fitnesses, newpop, best_ind, best_fit,
                   ever_max, ever_first, repair_fallback>>

Init ==
    /\ \E in \in Inputs :
         /\ sessions = in.sessions
         /\ timeslots = in.timeslots
         /\ rooms = in.rooms
         /\ teachers = in.teachers
    /\ pop_size \in 0..MaxPopSize
    /\ generations \in 0..MaxGenerations
    /\ pc = "start"
    /\ gen = 0
    /\ heap = <<>>
    /\ pop = <<>>
    /\ fitnesses = <<>>
    /\ newpop = <<>>
    /\ best_ind = None
    /\ best_fit = InitialBestFit
    /\ ever_max = NoFit
    /\ ever_first = <<>>
    /\ repair_fallback = FALSE

Next == Initialize \/ Evaluate \/ Elitism \/ BreedPair \/ NextGeneration \/ Main

Spec == Init /\ [][Next]_vars

----------------------------------------------------------------------------
(* fitness and repair on their own, applied to any candidate over the tables *)

\* two lectures of one course, two rooms of which one is too small
InPair == Input(<<Course("c1", "g1", 2, 30)>>, {"TS1", "TS2"},
                [r \in {"R1", "R2"} |-> IF r = "R1" THEN 20 ELSE 40],
                [t \in {"T1"} |-> Teacher({"c1"}, {"TS1", "TS2"}, {})])

\* four lectures of one course over four timeslots
InWeek == Input(<<Course("c1", "g1", 4, 30)>>, {"TS1", "TS2", "TS3", "TS4"}, OneRoom(40),
                [t \in {"T1"} |-> Teacher({"c1"}, {"TS1", "TS2"}, {"TS1"})])

UnitInputs == {InPref, InB2, InC1, InFix, InTwo, InPair, InWeek}

\* every binding of the session list to teachers, timeslots and rooms of the tables
RECURSIVE candidates_from(_)
candidates_from(j) ==
    IF j > Len(sessions) THEN {<<>>}
    ELSE {<<[session_id |-> sessions[j].session_id, course |-> sessions[j].course,
             group |-> sessions[j].group, size |-> sessions[j].size,
             timeslot |-> ts, room |-> r, teacher |-> t]>> \o rest :
            t \in DOMAIN teachers, ts \in timeslots, r \in DOMAIN rooms,
            rest \in candidates_from(j + 1)}

Candidates == candidates_from(1)

InitUnit ==
    /\ \E in \in UnitInputs :
         /\ sessions = in.sessions
         /\ timeslots = in.timeslots
         /\ rooms = in.rooms
         /\ teachers = in.teachers
    /\ pop_size = 1
    /\ generations = 0
    /\ pc = "unit"
    /\ gen = 0
    /\ \E cand \in Candidates :
         heap = [r \in {<<Buffer(0), 1, j, 0>> : j \in 1..Len(sessions)} |-> cand[r[3]]]
    /\ pop = <<[j \in 1..Len(sessions) |-> <<Buffer(0), 1, j, 0>>]>>
    /\ fitnesses = <<>>
    /\ newpop = <<>>
    /\ best_ind = None
    /\ best_fit = InitialBestFit
    /\ ever_max = NoFit
    /\ ever_first = <<>>
    /\ repair_fallback = FALSE

\* fitness(pop[0], ...): the value, or ZeroDivisionError
ApplyFitness ==
    /\ pc = "unit"
    /\ IF DivByZero(Val(heap, pop[1]))
       THEN /\ pc' = "error"
            /\ UNCHANGED fitnesses
       ELSE /\ pc' = "scored"
            /\ fitnesses' = <<fitness(Val(heap, pop[1]))>>
    /\ UNCHANGED <<config, gen, heap, pop, newpop, best_ind, best_fit, ever_max,
                   ever_first, repair_fallback>>

\* repair(copy.deepcopy(pop[0]), ...): pop[0] keeps the bindings passed in,
\* newpop[0] is the list repair returns
ApplyRepair ==
    /\ pc = "unit"
    /\ LET cp == deepcopy(heap, pop[1], Buffer(1), 1)
       IN  \E r \in repair(cp.h, cp.ind, Buffer(1), 1) :
             /\ newpop' = <<r.ind>>
             /\ heap' = Collect(r.h, RefsOf(pop) \cup RefsOf(newpop'))
             /\ repair_fallback' = r.fallback
    /\ pc' = "repaired"
    /\ UNCHANGED <<config, gen, pop, fitnesses, best_ind, best_fit, ever_max, ever_first>>

NextUnit == ApplyFitness \/ ApplyRepair

SpecUnit == InitUnit /\ [][NextUnit]_vars

----------------------------------------------------------------------------
(* Properties *)

\* the candidates run_ga holds: the population, the next generation, the best-ever
Held ==
    {pop[i] : i \in 1..Len(pop)} \cup {newpop[i] : i \in 1..Len(newpop)}
    \cup (IF best_ind = None THEN {} ELSE {best_ind})

\* an individual has one gene per catalog session, in catalog order
SameCatalog(ind) ==
    /\ Len(ind) = Len(sessions)
    /\ \A j \in 1..Len(ind) :
         /\ ind[j].session_id = sessions[j].session_id
         /\ ind[j].course = sessions[j].course
         /\ ind[j].group = sessions[j].group
         /\ ind[j].size = sessions[j].size

\* a child of the next generation whose bindings no individual of the
\* current population has
NewBindings ==
    /\ pc = "fill"
    /\ \E k \in (ELITE + 1)..Len(newpop) :
         \A i \in 1..Len(pop) : Val(heap, newpop[k]) # Val(heap, pop[i])

\* C1: every individual of the population, of the next generation and the
\* best-ever individual has exactly one gene per catalog session, at the
\* session's position, with the session's id, course, group and size.
C1_CatalogKept == \A ind \in Held : SameCatalog(Val(heap, ind))

\* a second generation is being bred from two-session individuals and holds
\* a child that crossover, mutate or repair made different from every parent
C1_Witness == gen >= 1 /\ Len(sessions) >= 2 /\ NewBindings

\* C2: the greatest fitness of generation g+1 is never lower than the
\* greatest fitness of generation g (fitnesses still holds generation g's
\* vector when generation g+1 is evaluated).
C2_ElitismMonotone ==
    [][(pc = "evaluate" /\ pc' # "error" /\ gen > 0 /\ Len(pop) > 0)
          => FitGE(MaxFit(fitnesses'), MaxFit(fitnesses))]_vars

\* generation 1 of a population larger than ELITE is evaluated and holds an
\* individual below the greatest fitness
C2_Witness ==
    /\ gen >= 1
    /\ pc = "breed"
    /\ Len(pop) > ELITE
    /\ \E i \in 1..Len(pop) : FitGT(MaxFit(fitnesses), fitnesses[i])

\* the conflict count of gene i did not grow from pop[1] (passed to repair)
\* to newpop[1] (returned by repair)
NotWorse(i) ==
    conflicts_count(heap[newpop[1][i]], i, Val(heap, newpop[1]))
        <= conflicts_count(heap[pop[1][i]], i, Val(heap, pop[1]))

\* C3 as stated: repair never increases the conflict count of any gene, the
\* last-resort random reassignment included.
C3_RepairNeverWorse ==
    pc = "repaired" => \A i \in 1..Len(sessions) : NotWorse(i)

\* C3 amended: when repair takes no last-resort reassignment, no gene's
\* conflict count is greater in the returned candidate than in the one passed.
C3_RepairNeverWorseWithoutFallback ==
    (pc = "repaired" /\ ~repair_fallback) => \A i \in 1..Len(sessions) : NotWorse(i)

\* repair adopted a trial for a gene in conflict and never fell back
C3_Witness ==
    /\ pc = "repaired"
    /\ ~repair_fallback
    /\ \E r \in RefsOf(newpop) : r[4] = 1
    /\ \E i \in 1..Len(sessions) :
         conflicts_count(heap[pop[1][i]], i, Val(heap, pop[1])) > 0

\* C4: fitness returns a value in (0, 1] for every candidate (the penalty is
\* never negative, 1 + P never zero), and a candidate with a larger penalty
\* has a strictly smaller fitness.
C4_FitnessInUnitInterval ==
    /\ pc # "error"
    /\ pc = "scored" =>
         /\ fitnesses[1].d > 0
         /\ fitnesses[1].n <= fitnesses[1].d
         /\ penalty2(Val(heap, pop[1])) >= 0
         /\ \A other \in Candidates :
              penalty2(other) > penalty2(Val(heap, pop[1]))
                  => /\ ~DivByZero(other)
                     /\ FitGT(fitnesses[1], fitness(other))

\* the configuration errors of the specification's error-handling section
ConfigError ==
    \/ Len(sessions) = 0
    \/ timeslots = {}
    \/ DOMAIN rooms = {}
    \/ DOMAIN teachers = {}
    \/ pop_size <= ELITE
    \/ TOURNAMENT_K > pop_size

\* C5: with a configuration error the run fails before a population is
\* evaluated or bred, and returns no schedule.
C5_ConfigErrorsFatal == ConfigError => pc \in {"start", "error"}

ValidConfig == ~ConfigError /\ generations >= 1

\* C6: with a valid configuration run_ga never raises, runs at most
\* `generations` rounds and returns a best-ever candidate that is not None.
C6_ValidRunReturnsBest ==
    ValidConfig =>
        /\ pc # "error"
        /\ gen <= generations
        /\ pc \in {"done", "written", "failed"} => best_ind # None

\* C7: once a generation is evaluated, best_fit is the greatest fitness
\* evaluated so far and best_ind has the bindings of the first individual
\* that attained it (stated for the valid configurations).
C7_BestIsEarliestMax ==
    (ValidConfig /\ ever_max # NoFit) =>
        /\ FitEQ(best_fit, ever_max)
        /\ best_ind # None
        /\ Val(heap, best_ind) = ever_first

\* every room is smaller than every session
AllRoomsTooSmall ==
    /\ Len(sessions) > 0
    /\ \A r \in DOMAIN rooms : \A j \in 1..Len(sessions) : rooms[r] < sessions[j].size

Returned == pc = "done" /\ best_ind # None

\* C8 as stated: when every room is too small, the returned penalty is
\* exactly HARD_PENALTY * n and the returned fitness 1/(1 + HARD_PENALTY * n)
\* (stated for the valid configurations).
C8_ExactlyCapacityPenalty ==
    (ValidConfig /\ Returned /\ AllRoomsTooSmall) =>
        /\ penalty2(Val(heap, best_ind)) = 2 * HARD_PENALTY * Len(sessions)
        /\ FitEQ(best_fit, [n |-> 2, d |-> 2 + 2 * HARD_PENALTY * Len(sessions)])

\* C8 amended: when every room is too small, every gene of the returned
\* candidate is over capacity, the returned fitness is 1/(1 + P) for the
\* candidate's penalty P, and P >= HARD_PENALTY * n - n: the capacity term is
\* HARD_PENALTY * n, the other terms add to it and only the preferred-slot
\* reward (at most 1 per gene) takes away.
C8_CapacityPenaltyAtLeast ==
    (Returned /\ AllRoomsTooSmall) =>
        /\ \A j \in 1..Len(sessions) :
             sessions[j].size > RoomCap(heap[best_ind[j]].room)
        /\ FitEQ(best_fit, fitness(Val(heap, best_ind)))
        /\ penalty2(Val(heap, best_ind))
              >= 2 * (HARD_PENALTY * Len(sessions) - Len(sessions))

\* a run over too-small rooms bred a generation and returned a candidate
\* whose penalty is not HARD_PENALTY * n
C8_Witness ==
    /\ Returned
    /\ AllRoomsTooSmall
    /\ gen >= 1
    /\ pop_size > ELITE
    /\ penalty2(Val(heap, best_ind)) # 2 * HARD_PENALTY * Len(sessions)

\* two one-lecture courses of one group, one timeslot, and one teacher who
\* is the only one qualified for either course
ScenarioB ==
    /\ Len(sessions) = 2
    /\ sessions[1].course # sessions[2].course
    /\ sessions[1].group = sessions[2].group
    /\ Cardinality(timeslots) = 1
    /\ Cardinality(QualifiedFor(sessions[1].course)) = 1
    /\ QualifiedFor(sessions[1].course) = QualifiedFor(sessions[2].course)

\* the returned schedule has exactly one (timeslot, teacher) bucket of size 2
OneTeacherDoubleBooking ==
    /\ heap[best_ind[1]].timeslot = heap[best_ind[2]].timeslot
    /\ heap[best_ind[1]].teacher = heap[best_ind[2]].teacher

BelowOne(f) == FitGT([n |-> 1, d |-> 1], f)

\* C9 as stated: in scenario B every terminated run returns a fitness below 1
\* and a schedule with exactly one teacher-timeslot double-booking (stated
\* for the valid configurations).
C9_ScenarioBDoubleBooking ==
    (ValidConfig /\ Returned /\ ScenarioB) => (BelowOne(best_fit) /\ OneTeacherDoubleBooking)

\* the teacher table holds the qualified teacher alone, whose available
\* slots are slots of the timeslot table
SoleTeacher ==
    /\ DOMAIN teachers = QualifiedFor(sessions[1].course)
    /\ \A t \in DOMAIN teachers : teachers[t].available \subseteq timeslots

\* C9 amended: in scenario B, when the qualified teacher is the only teacher
\* and is available in no slot outside the timeslot table, every run that
\* returns a schedule returns a fitness below 1 and exactly one
\* teacher-timeslot double-booking.
C9_ScenarioBSoleTeacher ==
    (Returned /\ ScenarioB /\ SoleTeacher) => (BelowOne(best_fit) /\ OneTeacherDoubleBooking)

\* a scenario-B run with the sole teacher bred two generations and returned
C9_Witness ==
    Returned /\ ScenarioB /\ SoleTeacher /\ gen >= 2 /\ pop_size > ELITE

\* no gene object belongs to two of the given lists, or twice to one
Disjoint(inds) ==
    /\ \A a \in 1..Len(inds) : \A i, j \in 1..Len(inds[a]) : i # j => inds[a][i] # inds[a][j]
    /\ \A a, b \in 1..Len(inds) :
         a # b => {inds[a][j] : j \in 1..Len(inds[a])} \cap {inds[b][j] : j \in 1..Len(inds[b])} = {}

\* no gene object is shared: among the individuals of the population, among
\* those of the next generation, with the best-ever candidate, and during
\* BREEDING between the population and the next generation
NoSharedGene ==
    /\ Disjoint(pop)
    /\ Disjoint(newpop)
    /\ RefsOf(pop) \cap BestRefs = {}
    /\ RefsOf(newpop) \cap BestRefs = {}
    /\ pc = "fill" => RefsOf(pop) \cap RefsOf(newpop) = {}

\* the elites of the next generation have the bindings they were evaluated with
ElitesKept ==
    pc = "fill" =>
        LET order == sorted_idx(fitnesses)
        IN  \A k \in 1..Min(ELITE, Len(pop)) :
                Val(heap, newpop[k]) = Val(heap, pop[order[k]])

\* one pass of the breeding loop leaves the bindings of the population, of
\* the individuals already in the next generation and of the best-ever alone
BreedingFrame ==
    (pc = "fill" /\ Len(newpop') > Len(newpop)) =>
        /\ \A i \in 1..Len(pop) : Val(heap', pop[i]) = Val(heap, pop[i])
        /\ \A k \in 1..Len(newpop) : Val(heap', newpop'[k]) = Val(heap, newpop[k])
        /\ best_ind' = best_ind
        /\ best_ind # None => Val(heap', best_ind) = Val(heap, best_ind)

====
